---- MODULE Spec2Model ----
(***************************************************************************)
(* Model of the resolver (src/list.ts: collectDeps, checkStackDependencies,*)
(* hasCirculation, list), the lock store (src/list.ts: oldLock, newLock,   *)
(* updateOrCreate, getItem, writeLock, readLock) and the part of the       *)
(* install driver that calls them (src/index.ts, lines 25-28).             *)
(*                                                                         *)
(* Scheduling.  collectDeps suspends only at `await resolve(name)` (a lock *)
(* hit short-circuits the await: `fromLock || (await resolve(name))`) and  *)
(* at `await Promise.all(...)`, after which it only returns.  So one step  *)
(* of the model is: a registry response arrives for one pending call, and  *)
(* that call runs placement, lock update, push and the synchronous prefix  *)
(* of every child call (a child served by the old lock runs its whole body *)
(* synchronously, depth first).                                            *)
(*                                                                         *)
(* semver.maxSatisying (line 40) is read as semver.maxSatisfying.          *)
(***************************************************************************)
EXTENDS Integers, Sequences, FiniteSets

(***************************************************************************)
(* Bounds                                                                  *)
(***************************************************************************)
MaxRuns == 3
MaxCalls == 9
MaxNetFails == 1

(***************************************************************************)
(* Version algebra (semver)                                                *)
(***************************************************************************)
NoVer == <<>>

AnyRange == [op |-> "any", v |-> <<0, 0, 0>>]

Caret(v) == [op |-> "caret", v |-> v]

Exact(v) == [op |-> "exact", v |-> v]

VLeq(a, b) ==
  \/ a[1] < b[1]
  \/ a[1] = b[1] /\ a[2] < b[2]
  \/ a[1] = b[1] /\ a[2] = b[2] /\ a[3] <= b[3]

satisfies(version, range) ==
  CASE range.op = "any" -> TRUE
    [] range.op = "exact" -> version = range.v
    [] range.op = "caret" ->
         IF range.v[1] > 0
           THEN version[1] = range.v[1] /\ VLeq(range.v, version)
           ELSE IF range.v[2] > 0
                  THEN /\ version[1] = 0
                       /\ version[2] = range.v[2]
                       /\ version[3] >= range.v[3]
                  ELSE version = range.v

maxSatisfying(versions, range) ==
  LET ok == {i \in 1..Len(versions) : satisfies(versions[i], range)}
  IN IF ok = {} THEN NoVer
     ELSE versions[CHOOSE i \in ok : \A j \in ok : VLeq(versions[j], versions[i])]

(***************************************************************************)
(* Registry contents and project manifests                                 *)
(***************************************************************************)
Dep(n, r) == [name |-> n, range |-> r]

Pkg(v, deps) == [version |-> v, dependencies |-> deps]

V100 == <<1, 0, 0>>
V110 == <<1, 1, 0>>
V123 == <<1, 2, 3>>
V140 == <<1, 4, 0>>
V200 == <<2, 0, 0>>
V300 == <<3, 0, 0>>

Names == {"A", "B", "C", "D", "E", "F", "G", "H", "L", "M", "N", "P", "Q",
          "S", "V", "X", "Y"}

Registry ==
  [n \in Names |->
    CASE n = "A" -> <<Pkg(V100, <<Dep("C", Caret(V100))>>)>>
      [] n = "B" -> <<Pkg(V100, <<Dep("C", Caret(V100))>>),
                      Pkg(V200, <<Dep("C", Caret(V200))>>)>>
      [] n = "C" -> <<Pkg(V100, <<>>), Pkg(V110, <<>>), Pkg(V200, <<>>)>>
      [] n = "D" -> <<Pkg(V100, <<Dep("C", Caret(V100))>>)>>
      [] n = "E" -> <<Pkg(V100, <<Dep("F", Exact(V100))>>)>>
      [] n = "F" -> <<Pkg(V100, <<>>), Pkg(V110, <<Dep("G", Caret(V100))>>)>>
      [] n = "G" -> <<Pkg(V100, <<Dep("H", Exact(V100))>>)>>
      [] n = "H" -> <<Pkg(V100, <<>>), Pkg(V110, <<>>)>>
      [] n = "L" -> <<Pkg(V123, <<>>), Pkg(V140, <<>>)>>
      [] n = "M" -> <<Pkg(V100, <<Dep("N", Caret(V100))>>)>>
      [] n = "N" -> <<Pkg(V100, <<Dep("M", Caret(V100))>>)>>
      [] n = "P" -> <<Pkg(V100, <<Dep("B", Caret(V200))>>)>>
      [] n = "Q" -> <<Pkg(V100, <<Dep("B", Caret(V200))>>)>>
      [] n = "S" -> <<Pkg(V100, <<Dep("S", Caret(V100))>>)>>
      [] n = "V" -> <<Pkg(V100, <<Dep("V", Caret(V200))>>),
                      Pkg(V200, <<Dep("V", Caret(V100))>>)>>
      [] n = "X" -> <<Pkg(V100, <<Dep("A", Caret(V100)), Dep("B", Caret(V200))>>)>>
      [] n = "Y" -> <<Pkg(V100, <<Dep("C", Exact(V100)), Dep("D", Caret(V100))>>)>>]

Tarball(n, v) == [pkg |-> n, ver |-> v]

Shasum(n, v) == [sha |-> n, of |-> v]

EmptyLock == [k \in {} |-> 0]

LockEntry(n, v, deps) ==
  [version |-> v, url |-> Tarball(n, v), shasum |-> Shasum(n, v),
   dependencies |-> deps]

Project(deps, dev, lockfile) ==
  [dependencies |-> deps, devDependencies |-> dev, lock |-> lockfile]

PrimedLock == [k \in {<<"L", Caret(V100)>>} |-> LockEntry("L", V123, <<>>)]

Scenarios ==
  << \* S1: compatible diamond
     Project(<<Dep("A", Caret(V100)), Dep("B", Caret(V100))>>, <<>>, EmptyLock),
     \* S2: incompatible diamond
     Project(<<Dep("A", Caret(V100)), Dep("B", Caret(V200))>>, <<>>, EmptyLock),
     \* S3: mutual cycle and self cycle
     Project(<<Dep("M", Caret(V100)), Dep("S", Caret(V100))>>, <<>>, EmptyLock),
     \* cycle through two versions of one name
     Project(<<Dep("V", Caret(V100))>>, <<>>, EmptyLock),
     \* S4: no matching version, with a sibling still outstanding
     Project(<<Dep("A", Caret(V100)), Dep("C", Caret(V300))>>, <<>>, EmptyLock),
     \* S5: lock replay, the registry has a newer version
     Project(<<Dep("L", Caret(V100))>>, <<>>, PrimedLock),
     \* S6: unconstrained root
     Project(<<Dep("C", AnyRange)>>, <<>>, EmptyLock),
     \* unconstrained dev dependency already bound by a transitive demand
     Project(<<Dep("A", Caret(V100))>>, <<Dep("C", AnyRange)>>, EmptyLock),
     \* unconstrained root racing with a transitive demand
     Project(<<Dep("A", Caret(V100)), Dep("C", AnyRange)>>, <<>>, EmptyLock),
     \* siblings below one root
     Project(<<Dep("X", Caret(V100))>>, <<>>, EmptyLock),
     \* exact and caret demand for one name below one root
     Project(<<Dep("Y", Caret(V100))>>, <<>>, EmptyLock),
     \* two roots reaching the same nested demand
     Project(<<Dep("C", Caret(V100))>>,
             <<Dep("P", Caret(V100)), Dep("Q", Caret(V100))>>, EmptyLock),
     \* a root demand that the binding made by a transitive demand does not
     \* satisfy, with one more root after it
     Project(<<Dep("A", Caret(V100)), Dep("C", Caret(V200)),
               Dep("L", Caret(V100))>>, <<>>, EmptyLock),
     \* roots covered on the first run by bindings that the second run,
     \* served from the lock, does not make
     Project(<<Dep("E", Caret(V100)), Dep("F", Caret(V100)),
               Dep("G", AnyRange), Dep("H", AnyRange)>>, <<>>, EmptyLock) >>

(***************************************************************************)
(* State                                                                   *)
(***************************************************************************)
VARIABLES
  scn,           \* index of the project being installed
  pc,            \* position of the install driver
  run,           \* number of the current run (a run is one process)
  rootManifest,  \* the project manifest object passed to list()
  lockFile,      \* content of bero-pm.yml
  prevLock,      \* history: content of bero-pm.yml when the run started
  oldLock,
  newLock,
  topLevel,
  unsatisfied,
  stacks,        \* stacks[r]: the array created by root call r
  calls,         \* every collectDeps call of the run, in call order
  skipped,       \* history: demands dropped by hasCirculation
  netFails,      \* number of registry failures so far
  refPlan        \* history: the plan of the run that is being repeated

vars == <<scn, pc, run, rootManifest, lockFile, prevLock, oldLock, newLock,
          topLevel, unsatisfied, stacks, calls, skipped, netFails, refPlan>>

(***************************************************************************)
(* Lock store                                                              *)
(***************************************************************************)
\* variant of lockKey that leaves the range out of the key
lockKey_nameOnly(name, constraint) == <<name, AnyRange>>

lockKey(name, constraint) == <<name, constraint>>

\* Object.assign(target, source) on maps
Assign(target, source) ==
  [k \in DOMAIN target \cup DOMAIN source |->
     IF k \in DOMAIN source THEN source[k] ELSE target[k]]

updateOrCreate(lock, key, info) ==
  LET created == IF key \in DOMAIN lock
                   THEN lock
                   ELSE Assign(lock, [k \in {key} |-> [k2 \in {} |-> 0]])
      merged == Assign(created[key], info)
  IN [created EXCEPT ![key] = merged]

NoManifest == <<>>

\* variant of getItem that looks the name up without its range
getItem_noRange(old, name, constraint) ==
  IF <<name, AnyRange>> \notin DOMAIN old
    THEN NoManifest
    ELSE LET item == old[<<name, AnyRange>>]
         IN << [version |-> item.version,
                dependencies |-> item.dependencies,
                dist |-> [shasum |-> item.shasum, tarball |-> item.url]] >>

getItem(old, name, constraint) ==
  IF <<name, constraint>> \notin DOMAIN old
    THEN NoManifest
    ELSE LET item == old[<<name, constraint>>]
         IN << [version |-> item.version,
                dependencies |-> item.dependencies,
                dist |-> [shasum |-> item.shasum, tarball |-> item.url]] >>

\* the registry client: the document served for a package name
resolve(name) ==
  [i \in 1..Len(Registry[name]) |->
     [version |-> Registry[name][i].version,
      dependencies |-> Registry[name][i].dependencies,
      dist |-> [shasum |-> Shasum(name, Registry[name][i].version),
                tarball |-> Tarball(name, Registry[name][i].version)]]]

(***************************************************************************)
(* Resolver                                                                *)
(***************************************************************************)
HasDep(dependencies, name) ==
  \E i \in 1..Len(dependencies) : dependencies[i].name = name

DepRange(dependencies, name) ==
  dependencies[CHOOSE i \in 1..Len(dependencies) : dependencies[i].name = name].range

\* the callback of findIndex: a frame that is silent about name, or whose
\* range (also the empty one) is satisfied, is the frame that is found
StackTest(frame, name, version) ==
  IF ~HasDep(frame.dependencies, name) THEN TRUE
  ELSE IF DepRange(frame.dependencies, name).op = "any" THEN TRUE
  ELSE satisfies(version, DepRange(frame.dependencies, name))

\* 0-based index as findIndex returns it, -1 when no frame is found
checkStackDependencies(name, version, stack) ==
  LET found == {i \in 1..Len(stack) : StackTest(stack[i], name, version)}
  IN IF found = {} THEN -1
     ELSE (CHOOSE i \in found : \A j \in found : i <= j) - 1

\* variant of hasCirculation that inspects the last frame only
hasCirculation_last(name, range, stack) ==
  /\ stack # <<>>
  /\ stack[Len(stack)].name = name
  /\ satisfies(stack[Len(stack)].version, range)

hasCirculation(name, range, stack) ==
  \E i \in 1..Len(stack) :
     stack[i].name = name /\ satisfies(stack[i].version, range)

\* Array.prototype.slice(start) on the names of the stack
SliceNames(stack, start) ==
  LET len == Len(stack)
      k == IF start < 0
             THEN (IF len + start < 0 THEN 0 ELSE len + start)
             ELSE (IF start > len THEN len ELSE start)
  IN [i \in 1..(len - k) |-> stack[k + i].name]

NewCall(name, constraint, parent, root, phase, src) ==
  [name |-> name, constraint |-> constraint, parent |-> parent, root |-> root,
   phase |-> phase, src |-> src, st |-> "net", branch |-> "none",
   matched |-> NoVer, seen |-> 0, entry |-> 0, lateStart |-> FALSE,
   lateRun |-> FALSE]

\* some call of the run has thrown
AnyThrew(cs) == \E i \in 1..Len(cs) : cs[i].st = "threw"

\* the value of a singleton set (binds an intermediate result once)
The(set) == CHOOSE x \in set : TRUE

\* lines 38-41: the version chosen from the manifest
MatchedVersion(manifest, constraint) ==
  LET versions == [i \in 1..Len(manifest) |-> manifest[i].version]
  IN IF constraint.op # "any"
       THEN maxSatisfying(versions, constraint)
       ELSE IF versions = <<>> THEN NoVer ELSE versions[Len(versions)]

\* variant of PlacementBranch that binds again when the top-level copy
\* does not satisfy the range
PlacementBranch_rebind(top, name, constraint, matched, stack) ==
  IF name \notin DOMAIN top THEN "bind"
  ELSE IF satisfies(top[name].version, constraint)
         THEN IF checkStackDependencies(name, matched, stack) = -1
                THEN "covered"
                ELSE "coveredNested"
         ELSE "bind"

\* lines 48-68: which arm of the placement decision call id takes
PlacementBranch(top, name, constraint, matched, stack) ==
  IF name \notin DOMAIN top THEN "bind"
  ELSE IF satisfies(top[name].version, constraint)
         THEN IF checkStackDependencies(name, matched, stack) = -1
                THEN "covered"
                ELSE "coveredNested"
         ELSE IF stack = <<>> THEN "typeerror" ELSE "nested"

\* lines 46-90 for call id: placement, lock update, push and the calls made
\* for the dependencies that pass hasCirculation.  S is the heap: topLevel,
\* unsatisfied, newLock, stacks, calls, skipped.  The result is the heap
\* after the body and the calls the body makes at lines 85-89, in order.
PlaceAndDescend(S, id, mm, branch) ==
  LET c == S.calls[id]
      name == c.name
      constraint == c.constraint
      stack == S.stacks[c.root]
      matched == mm.version
      url == mm.dist.tarball
      dependencies == mm.dependencies
      seenS == [S EXCEPT !.calls[id].matched = matched,
                         !.calls[id].seen = Len(stack),
                         !.calls[id].branch = branch,
                         !.calls[id].entry =
                            IF branch \in {"coveredNested", "nested"}
                              THEN Len(S.unsatisfied) + 1 ELSE 0,
                         !.calls[id].lateRun = AnyThrew(S.calls)]
  IN
  IF branch = "covered"
    THEN \* line 52: plain return
         [S |-> [seenS EXCEPT !.calls[id].st = "returned"], work |-> <<>>]
  ELSE IF branch = "typeerror"
    THEN \* line 65: stack.at(-1) is undefined
         [S |-> [seenS EXCEPT !.calls[id].st = "threw"], work |-> <<>>]
  ELSE
  LET topLevel2 ==
        IF branch = "bind"
          THEN Assign(S.topLevel,
                      [n \in {name} |-> [url |-> url, version |-> matched]])
          ELSE S.topLevel
      unsatisfied2 ==
        CASE branch = "bind" -> S.unsatisfied
          [] branch = "coveredNested" ->
               Append(S.unsatisfied,
                 [name |-> name,
                  parent |-> SliceNames(stack,
                               checkStackDependencies(name, matched, stack) - 2),
                  url |-> url])
          [] branch = "nested" ->
               Append(S.unsatisfied,
                 [name |-> name,
                  parent |-> <<stack[Len(stack)].name>>,
                  url |-> url])
      newLock2 ==
        updateOrCreate(S.newLock, lockKey(name, constraint),
          [version |-> matched, url |-> url,
           shasum |-> mm.dist.shasum,
           dependencies |-> dependencies])
      stack2 == Append(stack, [name |-> name, version |-> matched,
                               dependencies |-> dependencies])
      pass == {i \in 1..Len(dependencies) :
                 ~hasCirculation(dependencies[i].name, dependencies[i].range,
                                 stack2)}
      Kept(d) == \E i \in pass : dependencies[i] = d
      dropped == {[name |-> dependencies[i].name,
                   range |-> dependencies[i].range, by |-> id] :
                    i \in (1..Len(dependencies)) \ pass}
  IN [S |-> [seenS EXCEPT !.topLevel = topLevel2,
                          !.unsatisfied = unsatisfied2,
                          !.newLock = newLock2,
                          !.stacks[c.root] = stack2,
                          !.skipped = S.skipped \cup dropped,
                          !.calls[id].st = "ran"],
      work |-> The({[i \in 1..Len(kept) |->
                       [kind |-> "call", name |-> kept[i].name,
                        constraint |-> kept[i].range, parent |-> id,
                        root |-> c.root, phase |-> c.phase]] :
                    kept \in {SelectSeq(dependencies, Kept)}})]

\* The body of collectDeps from line 36 on, for call id, given the manifest
\* it obtained.
collectDeps(S, id, manifest) ==
  The({IF matched = NoVer
         THEN [S |-> [S EXCEPT !.calls[id].st = "threw",
                               !.calls[id].branch = "nomatch"],
               work |-> <<>>]
         ELSE The({PlaceAndDescend(S, id, p.mm, p.branch) :
                p \in {[mm |-> manifest[CHOOSE i \in 1..Len(manifest) :
                                          manifest[i].version = matched],
                        branch |-> PlacementBranch(S.topLevel, S.calls[id].name,
                                     S.calls[id].constraint, matched,
                                     S.stacks[S.calls[id].root])]}}) :
       matched \in {MatchedVersion(manifest, S.calls[id].constraint)}})

RECURSIVE Exec(_, _, _)
Exec(S, old, work) ==
  IF work = <<>> THEN S
  ELSE
  LET w == Head(work)
      rest == Tail(work)
  IN
  IF w.kind = "resume"
    THEN The({Exec(r.S, old, r.work \o rest) :
                r \in {collectDeps(S, w.id, resolve(S.calls[w.id].name))}})
  ELSE IF Len(S.calls) >= MaxCalls THEN Exec(S, old, rest)
  ELSE
  LET id == Len(S.calls) + 1
      root == IF w.root = 0 THEN id ELSE w.root
      fromLock == getItem(old, w.name, w.constraint)
      src == IF fromLock = NoManifest THEN "net" ELSE "lock"
      S1 == [S EXCEPT !.calls = Append(S.calls,
                         [NewCall(w.name, w.constraint, w.parent, root,
                                  w.phase, src)
                            EXCEPT !.lateStart = AnyThrew(S.calls)]),
                      !.stacks = Append(S.stacks, <<>>)]
  IN IF fromLock = NoManifest
       THEN Exec(S1, old, rest)
       ELSE The({Exec(r.S, old, r.work \o rest) :
                   r \in {collectDeps(S1, id, fromLock)}})

Heap ==
  [topLevel |-> topLevel, unsatisfied |-> unsatisfied, newLock |-> newLock,
   stacks |-> stacks, calls |-> calls, skipped |-> skipped]

SetHeap(S) ==
  /\ topLevel' = S.topLevel
  /\ unsatisfied' = S.unsatisfied
  /\ newLock' = S.newLock
  /\ stacks' = S.stacks
  /\ calls' = S.calls
  /\ skipped' = S.skipped

RootWork(entries, phase) ==
  [i \in 1..Len(entries) |->
     [kind |-> "call", name |-> entries[i].name,
      constraint |-> entries[i].range, parent |-> 0, root |-> 0,
      phase |-> phase]]

Children(cs, id) == {d \in 1..Len(cs) : cs[d].parent = id}

\* the promise returned by call id is fulfilled / rejected
RECURSIVE Fulfilled(_, _)
Fulfilled(cs, id) ==
  \/ cs[id].st = "returned"
  \/ cs[id].st = "ran" /\ \A d \in Children(cs, id) : Fulfilled(cs, d)

RECURSIVE Rejected(_, _)
Rejected(cs, id) ==
  \/ cs[id].st = "threw"
  \/ cs[id].st = "ran" /\ \E d \in Children(cs, id) : Rejected(cs, d)

RootCalls(cs, phase) ==
  {i \in 1..Len(cs) : cs[i].parent = 0 /\ cs[i].phase = phase}

\* variant of AllFulfilled that waits for the calls to settle (allSettled)
AllFulfilled_settled(cs, phase) ==
  \A i \in RootCalls(cs, phase) : Fulfilled(cs, i) \/ Rejected(cs, i)

\* Promise.all over the root calls of a phase
AllFulfilled(cs, phase) == \A i \in RootCalls(cs, phase) : Fulfilled(cs, i)

AnyRejected(cs, phase) == \E i \in RootCalls(cs, phase) : Rejected(cs, i)

\* lines 125-128 / 139-142: the values of the root calls that returned
\* { name, version } are written back into the map
Rewrite(entries, cs, phase) ==
  LET items == {i \in RootCalls(cs, phase) :
                  cs[i].st = "ran" /\ cs[i].constraint.op = "any"}
  IN [k \in 1..Len(entries) |->
        IF \E i \in items : cs[i].name = entries[k].name
          THEN LET last == CHOOSE i \in items :
                             /\ cs[i].name = entries[k].name
                             /\ \A j \in items :
                                  cs[j].name = entries[k].name => j <= i
               IN Dep(entries[k].name, Caret(cs[last].matched))
          ELSE entries[k]]

(***************************************************************************)
(* Actions                                                                 *)
(***************************************************************************)
Init ==
  /\ scn \in 1..Len(Scenarios)
  /\ pc = "start"
  /\ run = 1
  /\ rootManifest = [dependencies |-> Scenarios[scn].dependencies,
                     devDependencies |-> Scenarios[scn].devDependencies]
  /\ lockFile = Scenarios[scn].lock
  /\ prevLock = Scenarios[scn].lock
  /\ oldLock = EmptyLock
  /\ newLock = EmptyLock
  /\ topLevel = [n \in {} |-> 0]
  /\ unsatisfied = <<>>
  /\ stacks = <<>>
  /\ calls = <<>>
  /\ skipped = {}
  /\ netFails = 0
  /\ refPlan = <<>>

\* variant of readLock that loads the file into both lock maps
readLock_both ==
  /\ pc = "start"
  /\ oldLock' = Assign(oldLock, lockFile)
  /\ newLock' = Assign(newLock, lockFile)
  /\ pc' = "read"
  /\ UNCHANGED <<scn, run, rootManifest, lockFile, prevLock,
                 topLevel, unsatisfied, stacks, calls, skipped, netFails, refPlan>>

\* index.ts line 25
readLock ==
  /\ pc = "start"
  /\ oldLock' = Assign(oldLock, lockFile)
  /\ pc' = "read"
  /\ UNCHANGED <<scn, run, rootManifest, lockFile, prevLock, newLock,
                 topLevel, unsatisfied, stacks, calls, skipped, netFails, refPlan>>

\* list(), lines 117-123: the calls for rootManifest.dependencies
ListDependencies ==
  /\ pc = "read"
  /\ \E S \in {Exec(Heap, oldLock, RootWork(rootManifest.dependencies, "deps"))} : SetHeap(S)
  /\ pc' = "deps"
  /\ UNCHANGED <<scn, run, rootManifest, lockFile, prevLock, oldLock, netFails, refPlan>>

\* list(), lines 124-135: Promise.all settles, the map is rewritten and the
\* calls for rootManifest.devDependencies are made
ListDevDependencies ==
  /\ pc = "deps"
  /\ AllFulfilled(calls, "deps")
  /\ rootManifest' = [rootManifest EXCEPT !.dependencies =
                         Rewrite(rootManifest.dependencies, calls, "deps")]
  /\ \E S \in {Exec(Heap, oldLock, RootWork(rootManifest.devDependencies, "dev"))} : SetHeap(S)
  /\ pc' = "dev"
  /\ UNCHANGED <<scn, run, lockFile, prevLock, oldLock, netFails, refPlan>>

\* list(), lines 138-145: the plan is returned
ListReturn ==
  /\ pc = "dev"
  /\ AllFulfilled(calls, "dev")
  /\ rootManifest' = [rootManifest EXCEPT !.devDependencies =
                         Rewrite(rootManifest.devDependencies, calls, "dev")]
  /\ pc' = "listed"
  /\ UNCHANGED <<scn, run, lockFile, prevLock, oldLock, newLock, topLevel,
                 unsatisfied, stacks, calls, skipped, netFails, refPlan>>

\* a rejected call rejects Promise.all, list() and the driver's await
ListReject ==
  /\ pc \in {"deps", "dev"}
  /\ AnyRejected(calls, pc)
  /\ pc' = "failed"
  /\ UNCHANGED <<scn, run, rootManifest, lockFile, prevLock, oldLock, newLock,
                 topLevel, unsatisfied, stacks, calls, skipped, netFails, refPlan>>

\* the registry answers call id (line 34); nothing cancels a pending call
Resolved(id) ==
  /\ id \in 1..Len(calls)
  /\ calls[id].st = "net"
  /\ \E S \in {Exec(Heap, oldLock, <<[kind |-> "resume", id |-> id]>>)} : SetHeap(S)
  /\ UNCHANGED <<scn, pc, run, rootManifest, lockFile, prevLock, oldLock,
                 netFails, refPlan>>

\* the registry call of call id fails (line 34 throws)
ResolveFailed(id) ==
  /\ id \in 1..Len(calls)
  /\ calls[id].st = "net"
  /\ netFails < MaxNetFails
  /\ netFails' = netFails + 1
  /\ calls' = [calls EXCEPT ![id].st = "threw", ![id].branch = "netfail"]
  /\ UNCHANGED <<scn, pc, run, rootManifest, lockFile, prevLock, oldLock,
                 newLock, topLevel, unsatisfied, stacks, skipped, refPlan>>

\* variant of writeLock that serializes the old lock overlaid with the new
writeLock_merged ==
  /\ pc = "listed"
  /\ lockFile' = Assign(oldLock, newLock)
  /\ pc' = "done"
  /\ UNCHANGED <<scn, run, rootManifest, prevLock, oldLock, newLock, topLevel,
                 unsatisfied, stacks, calls, skipped, netFails, refPlan>>

\* index.ts line 28
writeLock ==
  /\ pc = "listed"
  /\ lockFile' = newLock
  /\ pc' = "done"
  /\ UNCHANGED <<scn, run, rootManifest, prevLock, oldLock, newLock, topLevel,
                 unsatisfied, stacks, calls, skipped, netFails, refPlan>>

\* the command is run again on the same project: a new process, whose
\* module state is fresh and which finds the lock file of the previous run
Rerun ==
  /\ pc = "done"
  /\ run < MaxRuns
  /\ run' = run + 1
  /\ pc' = "start"
  /\ rootManifest' = [dependencies |-> Scenarios[scn].dependencies,
                      devDependencies |-> Scenarios[scn].devDependencies]
  /\ prevLock' = lockFile
  /\ oldLock' = EmptyLock
  /\ newLock' = EmptyLock
  /\ topLevel' = [n \in {} |-> 0]
  /\ unsatisfied' = <<>>
  /\ stacks' = <<>>
  /\ calls' = <<>>
  /\ skipped' = {}
  /\ netFails' = 0
  /\ refPlan' = <<>>
  /\ UNCHANGED <<scn, lockFile>>

\* the plan list() returns (lines 138-145), the entries of unsatisfied as a
\* set
Plan ==
  [topLevel |-> topLevel,
   unsatisfied |-> {unsatisfied[i] : i \in 1..Len(unsatisfied)}]

\* the command is run once more with the lock file the run before started
\* from put back, on the same project and registry
Replay ==
  /\ pc = "done"
  /\ run > 1
  /\ run < MaxRuns
  /\ run' = run + 1
  /\ pc' = "start"
  /\ rootManifest' = [dependencies |-> Scenarios[scn].dependencies,
                      devDependencies |-> Scenarios[scn].devDependencies]
  /\ lockFile' = prevLock
  /\ oldLock' = EmptyLock
  /\ newLock' = EmptyLock
  /\ topLevel' = [n \in {} |-> 0]
  /\ unsatisfied' = <<>>
  /\ stacks' = <<>>
  /\ calls' = <<>>
  /\ skipped' = {}
  /\ netFails' = 0
  /\ refPlan' = <<Plan>>
  /\ UNCHANGED <<scn, prevLock>>

Next ==
  \/ readLock
  \/ ListDependencies
  \/ ListDevDependencies
  \/ ListReturn
  \/ ListReject
  \/ \E id \in 1..Len(calls) : Resolved(id)
  \/ \E id \in 1..Len(calls) : ResolveFailed(id)
  \/ writeLock
  \/ Rerun
  \/ Replay

Spec == Init /\ [][Next]_vars

\* every registry request is eventually answered or fails, and the event
\* loop runs every continuation that is ready
FairSpec == Spec /\ WF_vars(Next)

TypeOK ==
  /\ pc \in {"start", "read", "deps", "dev", "listed", "done", "failed"}
  /\ run \in 1..MaxRuns
  /\ Len(stacks) = Len(calls)

(***************************************************************************)
(* Notions used by the properties                                          *)
(***************************************************************************)
Succeeded == pc \in {"listed", "done"}

\* names of the packages on the recursion path of call id, root first
RECURSIVE Chain(_, _)
Chain(cs, id) ==
  IF id = 0 THEN <<>> ELSE Append(Chain(cs, cs[id].parent), cs[id].name)

\* every demand issued in the run, with the recursion path of its demander
Demands ==
  {[name |-> calls[i].name, range |-> calls[i].constraint,
    chain |-> Chain(calls, calls[i].parent)] : i \in 1..Len(calls)}
  \cup {[name |-> d.name, range |-> d.range, chain |-> Chain(calls, d.by)] :
          d \in skipped}

IsSegment(p, chain) ==
  /\ p # <<>>
  /\ \E i \in 0..(Len(chain) - Len(p)) : SubSeq(chain, i + 1, i + Len(p)) = p

Covered(d) ==
  \/ d.name \in DOMAIN topLevel /\ satisfies(topLevel[d.name].version, d.range)
  \/ \E k \in 1..Len(unsatisfied) :
        /\ unsatisfied[k].name = d.name
        /\ satisfies(unsatisfied[k].url.ver, d.range)
        /\ IsSegment(unsatisfied[k].parent, d.chain)

\* the stack as call id saw it at its placement step
SeenStack(id) == SubSeq(stacks[calls[id].root], 1, calls[id].seen)

\* some frame declares a range for name that version fails to satisfy
Conflicts(stack, name, version) ==
  \E i \in 1..Len(stack) :
     /\ HasDep(stack[i].dependencies, name)
     /\ ~satisfies(version, DepRange(stack[i].dependencies, name))

Settled(id) == calls[id].st \in {"ran", "returned"}

(***************************************************************************)
(* Properties                                                              *)
(***************************************************************************)

\* C1 (plan coverage): after a successful resolution every demand, also one
\* skipped by cycle detection, is satisfied by the top-level copy or by a
\* nested copy whose parent path lies on the demander's recursion path.
C1_PlanCoverage == Succeeded => \A d \in Demands : Covered(d)

\* C2: a demand that finds a satisfying top-level copy and no conflicting
\* frame on its stack appends nothing to unsatisfied; the compatible
\* diamond ends with A 1.0.0, B 1.0.0, C 1.1.0 at top level and nothing nested.
C2_CoveredEmitsNothing ==
  /\ \A id \in 1..Len(calls) :
        (/\ calls[id].branch \in {"covered", "coveredNested"}
         /\ ~Conflicts(SeenStack(id), calls[id].name, calls[id].matched))
        => calls[id].branch = "covered"
  /\ (scn = 1 /\ Succeeded) =>
        /\ DOMAIN topLevel = {"A", "B", "C"}
        /\ topLevel["A"].version = V100
        /\ topLevel["B"].version = V100
        /\ topLevel["C"].version = V110
        /\ unsatisfied = <<>>

\* C3 (cycle safety): the number of collectDeps calls stays below the cap of
\* the model, and a resolution that has started returns a plan or fails.
C3_CycleSafety ==
  /\ [](Len(calls) < MaxCalls)
  /\ (pc \in {"deps", "dev"}) ~> (pc \in {"listed", "done", "failed"})

C3_Witness ==
  /\ pc = "done"
  /\ scn \in {3, 4}
  /\ \E d \in skipped : d.name = "V" \/ d.name = "M"

\* C4 (lock determinism): a run started with the lock written by the
\* previous successful run writes an identical lock.
C4_LockDeterminism == (run >= 2 /\ pc = "done") => lockFile = prevLock

\* C5 (lock replay): a demand whose key is in the old lock is served by the
\* old lock, never by the registry, and chooses the locked version.
C5_LockReplay ==
  \A id \in 1..Len(calls) :
     lockKey(calls[id].name, calls[id].constraint) \in DOMAIN oldLock
     => /\ calls[id].src = "lock"
        /\ calls[id].st # "net"
        /\ calls[id].matched =
             oldLock[lockKey(calls[id].name, calls[id].constraint)].version

C5_Witness ==
  \E id \in 1..Len(calls) :
     /\ calls[id].name = "L"
     /\ calls[id].matched = V123
     /\ maxSatisfying([i \in 1..Len(resolve("L")) |-> resolve("L")[i].version],
                      calls[id].constraint) = V140

\* C6: once a collectDeps call has failed, no plan is returned and the lock
\* file keeps the content it had when the run started.
C6_NoLockOnFailure ==
  (\E id \in 1..Len(calls) : calls[id].st = "threw")
  => /\ ~Succeeded
     /\ lockFile = prevLock

C6_Witness ==
  /\ pc = "failed"
  /\ \E id \in 1..Len(calls) : calls[id].branch = "nomatch"
  /\ DOMAIN newLock # {}
  /\ lockFile = prevLock

\* C7 (caret rewrite): after a successful resolution every entry of the
\* project manifest that was the empty range is "^" + the resolved version.
C7_CaretRewrite ==
  Succeeded =>
    /\ \A k \in 1..Len(Scenarios[scn].dependencies) :
          Scenarios[scn].dependencies[k].range = AnyRange
          => rootManifest.dependencies[k].range.op = "caret"
    /\ \A k \in 1..Len(Scenarios[scn].devDependencies) :
          Scenarios[scn].devDependencies[k].range = AnyRange
          => rootManifest.devDependencies[k].range.op = "caret"

\* C8: no two entries of unsatisfied have the same (parent path, name).
C8_DistinctTargets ==
  \A i, j \in 1..Len(unsatisfied) :
     (/\ unsatisfied[i].parent = unsatisfied[j].parent
      /\ unsatisfied[i].name = unsatisfied[j].name) => i = j

\* C9: when resolution ends, every demand whose collectDeps completed has
\* its key in the new lock, with the version chosen for it.
C9_EveryDemandLocked ==
  Succeeded =>
    \A id \in 1..Len(calls) :
       Settled(id) =>
         /\ <<calls[id].name, calls[id].constraint>> \in DOMAIN newLock
         /\ newLock[<<calls[id].name, calls[id].constraint>>].version
              = calls[id].matched

\* C10 (key discipline): every key of the new lock is the name and the
\* requested range of a demand that ran in this run.
C10_KeyDiscipline ==
  \A k \in DOMAIN newLock :
     \E id \in 1..Len(calls) :
        /\ calls[id].st = "ran"
        /\ k = <<calls[id].name, calls[id].constraint>>

C10_Witness ==
  /\ pc = "done"
  /\ \E k \in DOMAIN oldLock : k \notin DOMAIN newLock
  /\ DOMAIN newLock # {}

\* C11 (first binder wins): within a run a top-level binding is never
\* changed or removed, and it holds the version chosen by the one call that
\* took the binding arm for that name.
C11_FirstBinderWins ==
  /\ [](\A n \in DOMAIN topLevel :
          \E id \in 1..Len(calls) :
             /\ calls[id].name = n
             /\ calls[id].branch = "bind"
             /\ calls[id].matched = topLevel[n].version
             /\ \A other \in 1..Len(calls) :
                  (calls[other].name = n /\ calls[other].branch = "bind")
                  => other = id)
  /\ [][run' = run =>
          \A n \in DOMAIN topLevel :
             n \in DOMAIN topLevel' /\ topLevel'[n] = topLevel[n]]_vars

C11_Witness ==
  \E id, later \in 1..Len(calls) :
     /\ calls[id].name = calls[later].name
     /\ calls[id].branch = "bind"
     /\ calls[later].branch = "nested"
     /\ calls[later].matched # calls[id].matched
     /\ topLevel[calls[id].name].version = calls[id].matched

\* C12: within a run two demands with the same lock key choose the same
\* version, and an entry of the new lock never changes its version.
C12_SameKeySameVersion ==
  /\ [](\A i, j \in 1..Len(calls) :
          (/\ lockKey(calls[i].name, calls[i].constraint)
                = lockKey(calls[j].name, calls[j].constraint)
           /\ calls[i].matched # NoVer
           /\ calls[j].matched # NoVer)
          => calls[i].matched = calls[j].matched)
  /\ [][run' = run =>
          \A k \in DOMAIN newLock :
             k \in DOMAIN newLock' /\ newLock'[k].version = newLock[k].version]_vars

C12_Witness ==
  \E i, j \in 1..Len(calls) :
     /\ i # j
     /\ calls[i].name = calls[j].name
     /\ calls[i].constraint = calls[j].constraint
     /\ calls[i].st = "ran"
     /\ calls[j].st = "ran"
     /\ newLock[lockKey(calls[i].name, calls[i].constraint)].version
          = calls[j].matched

\* C13 (stack isolation): the stack a call sees at its placement step holds
\* exactly one frame per ancestor on its own recursion path, in path order.
C13_StackIsolation ==
  \A id \in 1..Len(calls) :
     calls[id].matched # NoVer
     => [i \in 1..Len(SeenStack(id)) |-> SeenStack(id)[i].name]
          = Chain(calls, calls[id].parent)

\* C14 (nesting under the immediate parent): a demand made by package P
\* that finds a top-level copy of its name not satisfying its range appends
\* exactly one entry to unsatisfied, and the parent path of the entry is
\* the name of P.
C14_NestedUnderParent ==
  \A id \in 1..Len(calls) :
     (calls[id].branch = "nested" /\ calls[id].parent # 0)
     => /\ calls[id].entry \in 1..Len(unsatisfied)
        /\ unsatisfied[calls[id].entry].name = calls[id].name
        /\ unsatisfied[calls[id].entry].parent
             = <<calls[calls[id].parent].name>>
        /\ \A other \in 1..Len(calls) :
              calls[other].entry = calls[id].entry => other = id

\* C15 (parent paths name placed ancestors): every entry of unsatisfied has
\* a parent path made of names on the recursion path of the demand that
\* produced it, and each of those names is placed in topLevel or in
\* unsatisfied.
C15_ParentPathAncestors ==
  \A id \in 1..Len(calls) :
     calls[id].entry # 0
     => LET path == unsatisfied[calls[id].entry].parent
            chain == Chain(calls, calls[id].parent)
        IN \A i \in 1..Len(path) :
              /\ \E j \in 1..Len(chain) : chain[j] = path[i]
              /\ \/ path[i] \in DOMAIN topLevel
                 \/ \E k \in 1..Len(unsatisfied) :
                       unsatisfied[k].name = path[i]

\* C16 (result of checkStackDependencies): wherever collectDeps applies it,
\* checkStackDependencies(name, version, stack) is the lowest index whose
\* frame declares a range for name that version fails to satisfy, and -1
\* when every frame is silent about name or satisfied by version.
C16_CheckStackResult ==
  \A id \in 1..Len(calls) :
     calls[id].branch \in {"covered", "coveredNested"}
     => LET stack == SeenStack(id)
            bad == {i \in 0..(Len(stack) - 1) :
                      /\ HasDep(stack[i + 1].dependencies, calls[id].name)
                      /\ ~satisfies(calls[id].matched,
                                    DepRange(stack[i + 1].dependencies,
                                             calls[id].name))}
        IN checkStackDependencies(calls[id].name, calls[id].matched, stack)
             = IF bad = {} THEN -1
               ELSE CHOOSE i \in bad : \A j \in bad : i <= j

\* C17 (cancellation after the first fatal error): once a call of the run
\* has thrown, no call issues a registry query and no call body modifies
\* topLevel, unsatisfied or the new lock.
C17_SiblingsCancelled ==
  \A id \in 1..Len(calls) :
     /\ ~(calls[id].lateStart /\ calls[id].src = "net")
     /\ ~(calls[id].lateRun /\ calls[id].st = "ran")

\* C20 (causes of failure): a call throws only because no version of its
\* package satisfies its range or because the registry request failed; a
\* root demand that finds its name bound at top level to a version outside
\* its range does not fail.
C20_FailsOnlyOnNoMatch ==
  \A id \in 1..Len(calls) :
     calls[id].st = "threw" => calls[id].branch \in {"nomatch", "netfail"}

\* C19 (the old lock is read-only): after readLock no step of a run changes
\* a key or a field of the old lock, and the run writes the lock file only
\* in writeLock, with the new lock alone.
C19_OldLockReadOnly ==
  /\ [][(pc # "start" /\ run' = run) => oldLock' = oldLock]_vars
  /\ [][(lockFile' # lockFile /\ run' = run) => pc = "listed"]_vars
  /\ [][(pc = "listed" /\ pc' = "done") => lockFile' = newLock]_vars

\* a second run has written a lock file that lacks a key of its old lock
C19_Witness ==
  /\ pc = "done"
  /\ run = 2
  /\ \E k \in DOMAIN oldLock : k \notin DOMAIN newLock
  /\ \E id \in 1..Len(calls) : calls[id].src = "lock"
  /\ lockFile = newLock

\* C18 (plan determinism given the lock): two runs that start from the same
\* lock, written by a successful run on the same project and registry, end
\* with the same plan whatever the order of the registry responses.
C18_PlanDeterminism ==
  (refPlan # <<>> /\ Succeeded) => Plan = refPlan[1]
====
